---- MODULE Spec2Model ----
(***************************************************************************)
(* Model of aiohttp/web_jobs.py: Job and JobRunner on a cooperative        *)
(* asyncio event loop.                                                     *)
(*                                                                         *)
(* The event loop is a FIFO queue of handles (`ready`): the first step of  *)
(* a new task, the done-callbacks of a finished task (in the order of      *)
(* add_done_callback), timer callbacks of async_timeout.timeout and the    *)
(* bookkeeping of asyncio.wait.  One action runs one handle to its next    *)
(* suspension point.  The computation wrapped by a job is the environment: *)
(* after its first step it may finish, fail, or react to a delivered       *)
(* CancelledError by acknowledging, swallowing, returning or raising.      *)
(*                                                                         *)
(* Spec is the job machinery with callers of wait and close.  The other    *)
(* specifications add one kind of caller or observer each: HandlerSpec     *)
(* callers of set_exception_handler, IterSpec an iteration over the        *)
(* runner, CancelSpec the cancellation of a waiting caller, ClockSpec the  *)
(* loop's clock with timers firing when they are due.                      *)
(***************************************************************************)
EXTENDS Integers, Sequences, FiniteSets, TLC

NJobs == 2        \* jobs that exec may create
MaxOps == 2       \* calls of Job.wait / Job.close (direct or per-job parts of bulk calls)
MaxBulk == 1      \* calls of JobRunner.wait / JobRunner.close
MaxSets == 2      \* calls of JobRunner.set_exception_handler
MaxTime == 3      \* ticks the loop's clock may advance
MaxDelay == 2     \* longest duration, in ticks, given to set_timeout or wait

\* the grace period a JobRunner is constructed with, in ticks of the clock
Grace == 1

\* a timeout argument or attribute: None, or a duration in ticks
None == <<>>
Duration(d) == <<d>>
Timeouts == {None} \cup {Duration(d) : d \in 1..MaxDelay}

\* the delay loop.call_later gets from async_timeout.timeout(t)
Delay(t) == IF t = None THEN 0 ELSE t[1]

Jobs == 1..NJobs
Ops == 1..MaxOps

VARIABLES
    task,           \* Job._task state: NONE (job not constructed), PENDING, RESULT, EXCEPTION, CANCELLED
    started,        \* the task's coroutine has run its first step
    must_cancel,    \* a CancelledError will be thrown into the job's coroutine at its next step
    callbacks,      \* waiters registered on the task after Job._done_callback
    explicit_wait,  \* Job._explicit_wait
    manager,        \* Job._manager is the runner (TRUE) or None (FALSE)
    jobs,           \* JobRunner._jobs
    ready,          \* the loop's FIFO of scheduled handles
    op,             \* per call of wait/close: the coroutine's position and its timeout context
    bulk,           \* the JobRunner.wait / JobRunner.close call in progress
    nbulk,          \* bulk calls made
    reported,       \* events passed to JobRunner.call_exception_handler, per job and message
    loop_reported,  \* "Exception in callback" events the loop reports for a crashed done-callback
    added,          \* times the job was added to the registry
    removed,        \* times the job was removed from the registry
    key_error,      \* a removal found the job absent
    dc_ran,         \* Job._done_callback has been invoked
    exception_handler, \* JobRunner._exception_handler
    nset,           \* calls of set_exception_handler made
    last_set,       \* the last call of set_exception_handler: its argument and how it ended
    now,            \* the loop's clock, in ticks
    late,           \* the clock has advanced while the loop had work to run
    iter,           \* an iteration over the runner
    timeout         \* JobRunner._timeout: a grace period or None

vars == <<task, started, must_cancel, callbacks, explicit_wait, manager,
          jobs, ready, op, bulk, nbulk, reported, loop_reported, added, removed,
          key_error, dc_ran, exception_handler, nset, last_set, now, late,
          iter, timeout>>

jobVars == <<task, started, must_cancel, callbacks>>
histVars == <<added, removed, key_error, dc_ran>>
sideVars == <<exception_handler, nset, last_set, now, late, iter, timeout>>

Handle(k, i) == [kind |-> k, id |-> i]

FreeOp == [kind |-> "none", job |-> 0, pc |-> "free", out |-> "none",
           timer |-> "none", cancelled |-> FALSE, must_cancel |-> FALSE,
           dl |-> FALSE, expired |-> FALSE, closed |-> FALSE, val |-> 0,
           ccancel |-> "no", t0 |-> 0, delay |-> 0]

IdleBulk == [kind |-> "none", state |-> "idle", children |-> {}, counter |-> 0,
             snapshot |-> {}, empty |-> FALSE, t0 |-> 0]

\* events passed to call_exception_handler by message, and by the sink that got them
NoEvents == [failed |-> 0, timeout |-> 0, to_handler |-> 0, to_default |-> 0]

NoSet == [arg |-> "None", raised |-> FALSE, quiet |-> TRUE]

NoIter == [state |-> "idle", registered |-> {}, rest |-> {}, yielded |-> <<>>]

Init ==
    /\ task = [j \in Jobs |-> "NONE"]
    /\ started = [j \in Jobs |-> FALSE]
    /\ must_cancel = [j \in Jobs |-> FALSE]
    /\ callbacks = [j \in Jobs |-> <<>>]
    /\ explicit_wait = [j \in Jobs |-> FALSE]
    /\ manager = [j \in Jobs |-> FALSE]
    /\ jobs = {}
    /\ ready = <<>>
    /\ op = [o \in Ops |-> FreeOp]
    /\ bulk = IdleBulk
    /\ nbulk = 0
    /\ reported = [j \in Jobs |-> NoEvents]
    /\ loop_reported = [j \in Jobs |-> 0]
    /\ added = [j \in Jobs |-> 0]
    /\ removed = [j \in Jobs |-> 0]
    /\ key_error = FALSE
    /\ dc_ran = [j \in Jobs |-> FALSE]
    /\ exception_handler = "None"
    /\ nset = 0
    /\ last_set = NoSet
    /\ now = 0
    /\ late = FALSE
    /\ iter = NoIter
    /\ timeout = Duration(Grace)

-----------------------------------------------------------------------------
(* Pure pieces of the code *)

\* number of Job._done_callback handles of job j waiting in the ready queue
DcScheduled(j) == Cardinality({i \in 1..Len(ready) : ready[i] = Handle("dc", j)})

Done(j) == task[j] \in {"RESULT", "EXCEPTION", "CANCELLED"}

IsChild(o) == op[o].kind \in {"rwait", "rclose"}
IsClose(o) == op[o].kind \in {"close", "rclose"}
IsWait(o) == op[o].kind \in {"wait", "rwait"}

\* variant: the constructor forgets to register the job
RegistryAdd_forgotten(j) == jobs

\* manager._jobs.add(self)
RegistryAdd(j) == jobs \cup {j}

\* variant: the job is unregistered only when task.exception() does not raise
RegistryRemove_unless_cancelled(j) == IF task[j] = "CANCELLED" THEN jobs ELSE jobs \ {j}

\* self._manager._jobs.remove(self)
RegistryRemove(j) == jobs \ {j}

\* task.exception(): the failure, None, or CancelledError raised by the call itself
TaskException(j) ==
    CASE task[j] = "EXCEPTION" -> "Err"
      [] task[j] = "CANCELLED" -> "CancelledError"
      [] OTHER -> "None"

\* variant: the explicit-wait flag is not consulted
ShouldReport_ignoring_wait(j, exc) == exc # "None"

\* exc is not None and not self._explicit_wait
ShouldReport(j, exc) == exc # "None" /\ ~explicit_wait[j]

\* values a caller may pass to set_exception_handler: None, a callable that
\* returns, a callable that raises, and something that is not callable
HandlerArgs == {"None", "handler", "failing", "noncallable"}

\* callable(handler)
Callable(h) == h \in {"handler", "failing"}

\* variant: the argument is not validated
ValidHandler_unchecked(h) == TRUE

\* the validation in set_exception_handler: handler is None or callable(handler)
ValidHandler(h) == h = "None" \/ Callable(h)

\* get_exception_handler()
GetExceptionHandler == exception_handler

\* variant: the configured handler is ignored
Sink_always_default == "to_default"

\* call_exception_handler: the configured handler, or the loop's when it is None
Sink == IF exception_handler = "None" THEN "to_default" ELSE "to_handler"

\* handler(context) raises: the configured handler fails or cannot be called;
\* loop.call_exception_handler never raises
HandlerRaises == exception_handler \in {"failing", "noncallable"}

\* self._manager.call_exception_handler(context) for an event msg about job j
Report(j, msg) ==
    [reported EXCEPT ![j] = [@ EXCEPT ![msg] = @ + 1, ![Sink] = @ + 1]]

\* yield from self._task on a finished task: what the awaiting coroutine receives
AwaitResult(j) ==
    CASE task[j] = "EXCEPTION" -> "Err"
      [] task[j] = "CANCELLED" -> "CancelledError"
      [] OTHER -> "None"

\* Task._step of the awaiting task: a pending _must_cancel replaces whatever the future holds
StepException(o) ==
    IF op[o].must_cancel THEN "CancelledError" ELSE AwaitResult(op[o].job)

\* async_timeout.timeout.__exit__: a CancelledError caused by the timer becomes TimeoutError
TimeoutExit(o, exc) ==
    IF exc = "CancelledError" /\ op[o].cancelled THEN "TimeoutError" ELSE exc

\* the except clauses of Job.close, given what left the with block
CloseOutcome(j, exc) ==
    CASE exc = "None" -> "returned"
      [] exc = "CancelledError" -> "returned"
      [] exc = "TimeoutError" -> IF ~manager[j] THEN "AttributeError"
                                 ELSE IF HandlerRaises THEN "HandlerError"
                                 ELSE "returned"
      [] OTHER -> exc

\* Job.close on a task that is already finished: no suspension
CloseImmediate(j) ==
    IF ~manager[j] THEN "AttributeError" ELSE CloseOutcome(j, AwaitResult(j))

\* the except clause of Job._wait, given what left the with block
WaitOutcome(j, exc) ==
    CASE exc = "None" -> "returned"
      [] exc = "TimeoutError" ->
            IF CloseImmediate(j) = "returned" THEN "TimeoutError" ELSE CloseImmediate(j)
      [] OTHER -> exc

\* task.result() of a task that returned: the value computed by job j's
\* coroutine, which is j itself here so that values of different jobs differ
TaskResult(j) == IF task[j] = "RESULT" THEN j ELSE 0

\* variant: the awaited value is dropped instead of returned
WaitValue_dropped(j, out) == 0

\* return (yield from self._task): the value Job._wait hands to its caller
WaitValue(j, out) == IF out = "returned" THEN TaskResult(j) ELSE 0

\* Future._schedule_callbacks of the task asyncio.wait made for call o: a
\* finished per-job task queues asyncio.wait's _on_completion behind rq
ChildFinished(o, child, rq) ==
    IF child THEN Append(rq, Handle("on_completion", o)) ELSE rq

RECURSIVE WakeHandles(_)
WakeHandles(s) ==
    IF s = <<>> THEN <<>> ELSE <<Handle("wake", Head(s))>> \o WakeHandles(Tail(s))

\* Future._schedule_callbacks: Job._done_callback first, then the waiters
ScheduleCallbacks(j, rq) == rq \o <<Handle("dc", j)>> \o WakeHandles(callbacks[j])

NextOp == IF \E o \in Ops : op[o].pc = "free"
          THEN CHOOSE o \in Ops : op[o].pc = "free" /\ \A p \in Ops : op[p].pc = "free" => o <= p
          ELSE 0

FreeOps == {o \in Ops : op[o].pc = "free"}

\* the i-th unused call slot
NthFree(i) == CHOOSE o \in FreeOps : Cardinality({p \in FreeOps : p < o}) = i - 1

\* variant: jobs that are already finished are left out
BulkTargets_unfinished == {j \in jobs : ~Done(j)}

\* [job.close() for job in jobs] / [job._wait(timeout) for job in jobs]: the
\* jobs a bulk call makes a per-job coroutine for, read when the call is made
BulkTargets == jobs

\* orders in which set(ensure_future(f) for f in set(fs)) may schedule the per-job tasks
Orders(S) == {s \in [1..Cardinality(S) -> S] : \A a, b \in 1..Cardinality(S) : s[a] = s[b] => a = b}

-----------------------------------------------------------------------------
(* JobRunner.exec / Job.__init__ *)

Exec(j) ==
    /\ task[j] = "NONE"
    /\ \A i \in Jobs : i < j => task[i] # "NONE"
    /\ task' = [task EXCEPT ![j] = "PENDING"]
    /\ explicit_wait' = [explicit_wait EXCEPT ![j] = FALSE]
    /\ manager' = [manager EXCEPT ![j] = TRUE]
    /\ jobs' = RegistryAdd(j)
    /\ added' = [added EXCEPT ![j] = @ + 1]
    /\ ready' = Append(ready, Handle("step", j))
    /\ UNCHANGED <<started, must_cancel, callbacks, op, bulk, nbulk,
                   reported, loop_reported, removed, key_error, dc_ran,
                   sideVars>>

-----------------------------------------------------------------------------
(* The wrapped computation *)

\* the task reaches the terminal state st and schedules its callbacks behind rq
Finish(j, st, rq) ==
    /\ task' = [task EXCEPT ![j] = st]
    /\ must_cancel' = [must_cancel EXCEPT ![j] = FALSE]
    /\ callbacks' = [callbacks EXCEPT ![j] = <<>>]
    /\ ready' = ScheduleCallbacks(j, rq)

\* first step of the task: a CancelledError thrown into a coroutine that has
\* not started cannot be caught; a coroutine that starts may return, raise a
\* failure, raise CancelledError itself (the task then ends cancelled), or
\* suspend
FirstStep(j) ==
    /\ ready # <<>> /\ Head(ready) = Handle("step", j)
    /\ started' = [started EXCEPT ![j] = TRUE]
    /\ IF must_cancel[j]
       THEN Finish(j, "CANCELLED", Tail(ready))
       ELSE \/ Finish(j, "RESULT", Tail(ready))
            \/ Finish(j, "EXCEPTION", Tail(ready))
            \/ Finish(j, "CANCELLED", Tail(ready))
            \/ /\ ready' = Tail(ready)
               /\ UNCHANGED <<task, must_cancel, callbacks>>
    /\ UNCHANGED <<explicit_wait, manager, jobs, op, bulk, nbulk,
                   reported, loop_reported, added, removed, key_error, dc_ran,
                   sideVars>>

\* the computation finishes by itself: it returns, raises a failure, or lets
\* a CancelledError out (its own, or one it caught earlier and re-raises)
TaskReturn(j) ==
    /\ task[j] = "PENDING" /\ started[j] /\ ~must_cancel[j]
    /\ \/ Finish(j, "RESULT", ready)
       \/ Finish(j, "EXCEPTION", ready)
       \/ Finish(j, "CANCELLED", ready)
    /\ UNCHANGED <<started, explicit_wait, manager, jobs, op, bulk, nbulk,
                   reported, loop_reported, added, removed, key_error, dc_ran,
                   sideVars>>

\* a requested cancellation is delivered: the computation acknowledges it,
\* returns, raises its own failure, or swallows it and keeps running
TaskCancelled(j) ==
    /\ task[j] = "PENDING" /\ started[j] /\ must_cancel[j]
    /\ \/ Finish(j, "CANCELLED", ready)
       \/ Finish(j, "RESULT", ready)
       \/ Finish(j, "EXCEPTION", ready)
       \/ /\ must_cancel' = [must_cancel EXCEPT ![j] = FALSE]
          /\ UNCHANGED <<task, callbacks, ready>>
    /\ UNCHANGED <<started, explicit_wait, manager, jobs, op, bulk, nbulk,
                   reported, loop_reported, added, removed, key_error, dc_ran,
                   sideVars>>

-----------------------------------------------------------------------------
(* Job._done_callback *)

DoneCallback(j) ==
    /\ ready # <<>> /\ Head(ready) = Handle("dc", j)
    /\ ready' = Tail(ready)
    /\ dc_ran' = [dc_ran EXCEPT ![j] = TRUE]
    /\ IF ~manager[j] \/ j \notin jobs
       THEN \* the removal raises: the loop reports the crashed callback
            /\ key_error' = TRUE
            /\ loop_reported' = [loop_reported EXCEPT ![j] = @ + 1]
            /\ UNCHANGED <<jobs, removed, reported, manager>>
       ELSE /\ jobs' = RegistryRemove(j)
            /\ removed' = [removed EXCEPT ![j] = @ + 1]
            /\ UNCHANGED key_error
            /\ IF TaskException(j) = "CancelledError"
               THEN \* task.exception() raises on a cancelled task: the callback
                    \* stops here and the loop reports it
                    /\ loop_reported' = [loop_reported EXCEPT ![j] = @ + 1]
                    /\ UNCHANGED <<reported, manager>>
               ELSE IF ShouldReport(j, TaskException(j))
                    THEN /\ reported' = Report(j, "failed")
                         /\ IF HandlerRaises
                            THEN \* the handler's failure leaves the callback
                                 \* before line 74; the loop reports it
                                 /\ loop_reported' = [loop_reported EXCEPT ![j] = @ + 1]
                                 /\ UNCHANGED manager
                            ELSE /\ manager' = [manager EXCEPT ![j] = FALSE]
                                 /\ UNCHANGED loop_reported
                    ELSE /\ manager' = [manager EXCEPT ![j] = FALSE]
                         /\ UNCHANGED <<reported, loop_reported>>
    /\ UNCHANGED <<jobVars, explicit_wait, op, bulk, nbulk, added, sideVars>>

-----------------------------------------------------------------------------
(* Job.close and Job.wait / Job._wait up to their first suspension *)

\* Job.close run by call o (a record r with kind and job filled in) behind queue rq
CloseBegin(o, r, rq) ==
    LET j == r.job IN
    /\ must_cancel' = IF task[j] = "PENDING" THEN [must_cancel EXCEPT ![j] = TRUE]
                      ELSE must_cancel
    /\ IF ~manager[j] \/ task[j] # "PENDING"
       THEN /\ op' = [op EXCEPT ![o] = [r EXCEPT !.pc = "done", !.out = CloseImmediate(j)]]
            /\ ready' = ChildFinished(o, r.kind = "rclose", rq)
            /\ UNCHANGED bulk
            /\ UNCHANGED callbacks
       ELSE /\ op' = [op EXCEPT ![o] =
                        [r EXCEPT !.pc = "await",
                                  !.timer = IF timeout = None THEN "none" ELSE "armed",
                                  !.delay = Delay(timeout),
                                  !.t0 = now]]
            /\ callbacks' = [callbacks EXCEPT ![j] = Append(@, o)]
            /\ ready' = rq
            /\ UNCHANGED bulk

\* Job._wait run by call o behind queue rq
WaitBegin(o, r, rq) ==
    LET j == r.job IN
    IF task[j] # "PENDING"
    THEN /\ op' = [op EXCEPT ![o] =
                     [r EXCEPT !.pc = "done", !.out = WaitOutcome(j, AwaitResult(j)),
                               !.val = WaitValue(j, WaitOutcome(j, AwaitResult(j)))]]
         /\ ready' = ChildFinished(o, r.kind = "rwait", rq)
         /\ UNCHANGED bulk
         /\ UNCHANGED callbacks
    ELSE /\ op' = [op EXCEPT ![o] = [r EXCEPT !.pc = "await",
                                              !.timer = IF r.dl THEN "armed" ELSE "none",
                                              !.t0 = now]]
         /\ callbacks' = [callbacks EXCEPT ![j] = Append(@, o)]
         /\ ready' = rq
         /\ UNCHANGED bulk

\* a caller calls job.close()
CallClose(o, j) ==
    /\ o = NextOp /\ task[j] # "NONE"
    /\ CloseBegin(o, [FreeOp EXCEPT !.kind = "close", !.job = j], ready)
    /\ UNCHANGED <<task, started, explicit_wait, manager, jobs, nbulk,
                   reported, loop_reported, histVars, sideVars>>

\* a caller calls job.wait(timeout=t)
CallWait(o, j, t) ==
    /\ o = NextOp /\ task[j] # "NONE"
    /\ explicit_wait' = [explicit_wait EXCEPT ![j] = TRUE]
    /\ WaitBegin(o, [FreeOp EXCEPT !.kind = "wait", !.job = j, !.dl = (t # None),
                                   !.delay = Delay(t)], ready)
    /\ UNCHANGED <<task, started, must_cancel, manager, jobs, nbulk,
                   reported, loop_reported, histVars, sideVars>>

-----------------------------------------------------------------------------
(* async_timeout.timeout around yield from self._task *)

\* The deadline / grace period elapses and the loop runs timeout._cancel_task:
\* it cancels the awaiting task, which forwards the cancellation to the job's
\* task it awaits, or marks itself when that task is already finished.  The
\* timer handle is queued before the job's task finishes or not at all (the
\* call's wake-up, queued right behind Job._done_callback, cancels it), so it
\* runs while the task is pending or before the task's callbacks; its
\* callback touches only these two tasks.
TimerFire(o) ==
    LET j == op[o].job IN
    /\ op[o].pc = "await" /\ op[o].timer = "armed"
    /\ task[j] = "PENDING" \/ DcScheduled(j) = 1
    /\ UNCHANGED ready
    /\ must_cancel' = IF task[j] = "PENDING" THEN [must_cancel EXCEPT ![j] = TRUE]
                      ELSE must_cancel
    /\ op' = [op EXCEPT ![o] = [@ EXCEPT !.timer = "fired", !.cancelled = TRUE,
                                         !.must_cancel = (task[j] # "PENDING"),
                                         !.expired = (task[j] = "PENDING")]]
    /\ UNCHANGED <<task, started, callbacks, explicit_wait, manager, jobs,
                   bulk, nbulk, reported, loop_reported, histVars, sideVars>>

\* the awaiting call is woken by the finished task and runs to its end
Wake(o) ==
    LET j == op[o].job
        exc == TimeoutExit(o, StepException(o))
    IN
    /\ ready # <<>> /\ Head(ready) = Handle("wake", o)
    /\ op' = [op EXCEPT ![o] =
                [@ EXCEPT !.pc = "done",
                          !.out = IF IsClose(o) THEN CloseOutcome(j, exc) ELSE WaitOutcome(j, exc),
                          !.val = IF IsClose(o) THEN 0 ELSE WaitValue(j, WaitOutcome(j, exc)),
                          !.timer = IF @ = "armed" THEN "cancelled" ELSE @,
                          !.must_cancel = FALSE,
                          !.closed = (IsWait(o) /\ exc = "TimeoutError")]]
    /\ reported' = IF IsClose(o) /\ exc = "TimeoutError" /\ manager[j]
                   THEN Report(j, "timeout")
                   ELSE reported
    /\ ready' = ChildFinished(o, IsChild(o), Tail(ready))
    /\ UNCHANGED bulk
    /\ UNCHANGED <<jobVars, explicit_wait, manager, jobs, nbulk, loop_reported,
                   histVars, sideVars>>

-----------------------------------------------------------------------------
(* The loop's clock *)

\* the timeout call o armed has elapsed: loop.call_later(timeout, ...) is due
TimerDue(o) ==
    op[o].pc = "await" /\ op[o].timer = "armed" /\ now >= op[o].t0 + op[o].delay

\* the loop runs a timer when it is due
TimedTimerFire(o) == TimerDue(o) /\ TimerFire(o)

\* the loop has nothing to run: no ready handle, no due timer, and no task
\* with a cancellation requested (its resumption is a ready handle)
LoopIdle ==
    /\ ready = <<>>
    /\ \A o \in Ops : ~TimerDue(o)
    /\ \A j \in Jobs : ~(task[j] = "PENDING" /\ started[j] /\ must_cancel[j])

\* The clock advances.  While the loop is idle it sleeps until the next
\* timer; the clock also advances while a handle runs (a step of a task that
\* blocks), and then handles and due timers run late.
Tick ==
    /\ now < MaxTime
    /\ now' = now + 1
    /\ late' = (late \/ ~LoopIdle)
    /\ UNCHANGED <<jobVars, explicit_wait, manager, jobs, ready, op, bulk, nbulk,
                   reported, loop_reported, histVars, exception_handler, nset,
                   last_set, iter, timeout>>

-----------------------------------------------------------------------------
(* Cancellation of a task suspended in Job._wait *)

\* variant: the awaited task is shielded from the waiter's cancellation
ForwardCancel_shielded(j) == must_cancel

\* Task.cancel() of a task suspended in 'yield from self._task' calls
\* cancel() on the job's task it awaits
ForwardCancel(j) ==
    IF task[j] = "PENDING" THEN [must_cancel EXCEPT ![j] = TRUE] ELSE must_cancel

\* Somebody cancels the task running call o while it is suspended in
\* Job._wait.  The request goes to the job's task and the waiter keeps
\* waiting for it; when the job's task is already finished the waiter itself
\* is marked and gets CancelledError at its wake-up.
CancelCaller(o) ==
    LET j == op[o].job IN
    /\ op[o].pc = "await" /\ IsWait(o) /\ op[o].ccancel = "no"
    /\ must_cancel' = ForwardCancel(j)
    /\ op' = [op EXCEPT ![o] =
                [@ EXCEPT !.ccancel = IF task[j] = "PENDING" THEN "forwarded" ELSE "late",
                          !.must_cancel = @ \/ task[j] # "PENDING"]]
    /\ UNCHANGED <<task, started, callbacks, explicit_wait, manager, jobs, ready,
                   bulk, nbulk, reported, loop_reported, histVars, sideVars>>

-----------------------------------------------------------------------------
(* JobRunner.wait / JobRunner.close *)

\* k is "rwait" or "rclose"; t is the timeout given to wait
CallRunner(k, t) ==
    /\ bulk.state \in {"idle", "returned"} /\ nbulk < MaxBulk
    /\ nbulk' = nbulk + 1
    /\ k = "rclose" => t = None
    /\ IF jobs = {}
       THEN /\ bulk' = [IdleBulk EXCEPT !.kind = k, !.state = "returned", !.empty = TRUE,
                                        !.t0 = now]
            /\ UNCHANGED <<op, ready>>
       ELSE /\ Cardinality(FreeOps) >= Cardinality(BulkTargets)
            /\ \E s \in Orders(BulkTargets) :
                 LET n == Cardinality(BulkTargets)
                     slot == [i \in 1..n |-> NthFree(i)]
                     kids == {slot[i] : i \in 1..n}
                     idx(o) == CHOOSE i \in 1..n : slot[i] = o
                 IN /\ op' = [o \in Ops |->
                                IF o \in kids
                                THEN [FreeOp EXCEPT !.kind = k, !.job = s[idx(o)],
                                                    !.pc = "start", !.dl = (t # None),
                                                    !.delay = Delay(t)]
                                ELSE op[o]]
                    /\ ready' = ready \o [i \in 1..n |-> Handle("start", slot[i])]
                    /\ bulk' = [kind |-> k, state |-> "waiting", children |-> kids,
                                counter |-> n, snapshot |-> jobs, empty |-> FALSE,
                                t0 |-> now]
    /\ UNCHANGED <<jobVars, explicit_wait, manager, jobs, reported, loop_reported,
                   histVars, sideVars>>

\* first step of the task asyncio.wait made of job.close() / job._wait(timeout)
ChildStart(o) ==
    /\ ready # <<>> /\ Head(ready) = Handle("start", o)
    /\ IF op[o].kind = "rclose"
       THEN CloseBegin(o, op[o], Tail(ready))
       ELSE WaitBegin(o, op[o], Tail(ready)) /\ UNCHANGED must_cancel
    /\ UNCHANGED <<task, started, explicit_wait, manager, jobs, nbulk,
                   reported, loop_reported, histVars, sideVars>>

\* asyncio.wait's _on_completion, the done-callback of each per-job task:
\* it counts down, and the last one completes the waiter future, which
\* queues the wake-up of the caller of JobRunner.wait / JobRunner.close
OnCompletion(o) ==
    /\ ready # <<>> /\ Head(ready) = Handle("on_completion", o)
    /\ bulk' = [bulk EXCEPT !.counter = @ - 1]
    /\ ready' = IF bulk.counter = 1
                THEN Append(Tail(ready), Handle("bulk_wake", 0))
                ELSE Tail(ready)
    /\ UNCHANGED <<jobVars, explicit_wait, manager, jobs, op, nbulk, reported,
                   loop_reported, histVars, sideVars>>

\* the caller of JobRunner.wait / JobRunner.close resumes and returns
BulkWake ==
    /\ ready # <<>> /\ Head(ready) = Handle("bulk_wake", 0)
    /\ ready' = Tail(ready)
    /\ bulk' = [bulk EXCEPT !.state = "returned"]
    /\ UNCHANGED <<jobVars, explicit_wait, manager, jobs, op, nbulk, reported,
                   loop_reported, histVars, sideVars>>

-----------------------------------------------------------------------------
(* JobRunner.get_timeout / JobRunner.set_timeout *)

GetTimeout == timeout

\* set_timeout(t): t is a duration or None (close() then waits unbounded)
SetTimeout(t) ==
    /\ timeout # t
    /\ timeout' = t
    /\ UNCHANGED <<jobVars, explicit_wait, manager, jobs, ready, op, bulk, nbulk,
                   reported, loop_reported, histVars, exception_handler, nset,
                   last_set, now, late, iter>>

-----------------------------------------------------------------------------
(* JobRunner.set_exception_handler *)

\* no event has gone to the loop's default reporter so far
NoDefaultEvents == \A j \in Jobs : reported[j].to_default = 0

SetExceptionHandler(h) ==
    /\ nset < MaxSets
    /\ nset' = nset + 1
    /\ IF ValidHandler(h)
       THEN /\ exception_handler' = h
            /\ last_set' = [arg |-> h, raised |-> FALSE, quiet |-> NoDefaultEvents]
       ELSE \* raise TypeError
            /\ last_set' = [arg |-> h, raised |-> TRUE, quiet |-> NoDefaultEvents]
            /\ UNCHANGED exception_handler
    /\ UNCHANGED <<jobVars, explicit_wait, manager, jobs, ready, op, bulk, nbulk,
                   reported, loop_reported, histVars, now, late, iter, timeout>>

-----------------------------------------------------------------------------
(* JobRunner.__iter__ and the iterator it returns *)

Range(q) == {q[i] : i \in 1..Len(q)}

\* variant: the iterator walks the registry itself
IterRemaining_live == jobs \ Range(iter.yielded)

\* what the iterator over list(self._jobs) has left to yield
IterRemaining == iter.rest

\* iter(runner): list(self._jobs) copies the registry
IterStart ==
    /\ iter.state # "active"
    /\ iter' = [state |-> "active", registered |-> jobs, rest |-> jobs,
                yielded |-> <<>>]
    /\ UNCHANGED <<jobVars, explicit_wait, manager, jobs, ready, op, bulk, nbulk,
                   reported, loop_reported, histVars, exception_handler, nset,
                   last_set, now, late, timeout>>

\* next(it): the next job of the copy in the set's order, or StopIteration
IterNext ==
    /\ iter.state = "active"
    /\ IF IterRemaining = {}
       THEN iter' = [iter EXCEPT !.state = "finished"]
       ELSE \E j \in IterRemaining :
               iter' = [iter EXCEPT !.yielded = Append(@, j), !.rest = @ \ {j}]
    /\ UNCHANGED <<jobVars, explicit_wait, manager, jobs, ready, op, bulk, nbulk,
                   reported, loop_reported, histVars, exception_handler, nset,
                   last_set, now, late, timeout>>

-----------------------------------------------------------------------------

\* jobs, their computations, and callers of wait and close
NextCore ==
    \/ \E j \in Jobs : Exec(j)
    \/ \E j \in Jobs : FirstStep(j)
    \/ \E j \in Jobs : TaskReturn(j)
    \/ \E j \in Jobs : TaskCancelled(j)
    \/ \E j \in Jobs : DoneCallback(j)
    \/ \E o \in Ops, j \in Jobs : CallClose(o, j)
    \/ \E o \in Ops, j \in Jobs, t \in {None, Duration(Grace)} : CallWait(o, j, t)
    \/ \E o \in Ops : TimerFire(o)
    \/ \E o \in Ops : Wake(o)
    \/ \E k \in {"rwait", "rclose"}, t \in {None, Duration(Grace)} : CallRunner(k, t)
    \/ \E o \in Ops : ChildStart(o)
    \/ \E o \in Ops : OnCompletion(o)
    \/ BulkWake

\* the same with callers that also change the runner's grace period
Next ==
    \/ NextCore
    \/ \E t \in {None, Duration(Grace)} : SetTimeout(t)

Spec == Init /\ [][Next]_vars

TypeOK ==
    /\ task \in [Jobs -> {"NONE", "PENDING", "RESULT", "EXCEPTION", "CANCELLED"}]
    /\ jobs \subseteq Jobs
    /\ \A o \in Ops : op[o].pc \in {"free", "start", "await", "done"}
    /\ \A o \in Ops : op[o].out \in {"none", "returned", "Err", "TimeoutError",
                                     "CancelledError", "AttributeError", "HandlerError"}
    /\ Len(ready) <= 2 * NJobs + 3 * MaxOps + 1
    /\ exception_handler \in {"None", "handler", "failing"}
    /\ nset \in 0..MaxSets
    /\ now \in 0..MaxTime
    /\ iter.state \in {"idle", "active", "finished"}
    /\ late \in BOOLEAN
    /\ timeout \in Timeouts
    /\ \A o \in Ops : op[o].delay \in 0..MaxDelay

\* the loop runs the handle at the head of its ready queue
RunHandle ==
    \/ \E j \in Jobs : FirstStep(j)
    \/ \E j \in Jobs : DoneCallback(j)
    \/ \E o \in Ops : Wake(o)
    \/ \E o \in Ops : ChildStart(o)
    \/ \E o \in Ops : OnCompletion(o)
    \/ BulkWake

\* The loop keeps running ready handles, due timers fire, and a requested
\* cancellation is delivered to the computation (which may swallow it).
\* A computation is never obliged to terminate by itself.  The grace period
\* stays configured: nobody calls set_timeout.
FairSpec ==
    /\ Init /\ [][NextCore]_vars
    /\ WF_vars(RunHandle)
    /\ WF_vars(\E o \in Ops : TimerFire(o))
    /\ WF_vars(\E j \in Jobs : TaskCancelled(j))

\* The program with callers that also configure the exception handler.
\* Bounds on the arguments: the handlers passed return when invoked (a
\* handler that raises is in NextFailing), and wait is called without a
\* deadline; close() still arms the grace period's timer.
NextHandler ==
    \/ \E j \in Jobs : Exec(j)
    \/ \E j \in Jobs : FirstStep(j)
    \/ \E j \in Jobs : TaskReturn(j)
    \/ \E j \in Jobs : TaskCancelled(j)
    \/ \E j \in Jobs : DoneCallback(j)
    \/ \E o \in Ops, j \in Jobs : CallClose(o, j)
    \/ \E o \in Ops, j \in Jobs, t \in {None} : CallWait(o, j, t)
    \/ \E o \in Ops : TimerFire(o)
    \/ \E o \in Ops : Wake(o)
    \/ \E k \in {"rwait", "rclose"}, t \in {None} : CallRunner(k, t)
    \/ \E o \in Ops : ChildStart(o)
    \/ \E o \in Ops : OnCompletion(o)
    \/ BulkWake
    \/ \E t \in {None, Duration(Grace)} : SetTimeout(t)
    \/ \E h \in HandlerArgs \ {"failing"} : SetExceptionHandler(h)

HandlerSpec == Init /\ [][NextHandler]_vars

\* the program with callers that configure a handler that raises when invoked
NextFailing ==
    \/ Next
    \/ SetExceptionHandler("failing")

FailingSpec == Init /\ [][NextFailing]_vars

\* the registry's life cycle (creation, termination, completion
\* notification) while a caller iterates over the runner
NextIter ==
    \/ \E j \in Jobs : Exec(j)
    \/ \E j \in Jobs : FirstStep(j)
    \/ \E j \in Jobs : TaskReturn(j)
    \/ \E j \in Jobs : DoneCallback(j)
    \/ IterStart
    \/ IterNext

IterSpec == Init /\ [][NextIter]_vars

\* JobRunner.close on a loop whose clock is observed: timers fire when due
\* or later, and callers change the grace period
NextClock ==
    \/ \E j \in Jobs : Exec(j)
    \/ \E j \in Jobs : FirstStep(j)
    \/ \E j \in Jobs : TaskReturn(j)
    \/ \E j \in Jobs : TaskCancelled(j)
    \/ \E j \in Jobs : DoneCallback(j)
    \/ CallRunner("rclose", None)
    \/ \E o \in Ops : ChildStart(o)
    \/ \E o \in Ops : TimedTimerFire(o)
    \/ \E o \in Ops : Wake(o)
    \/ \E o \in Ops : OnCompletion(o)
    \/ BulkWake
    \/ \E t \in Timeouts : SetTimeout(t)
    \/ Tick

ClockSpec == Init /\ [][NextClock]_vars

\* the program with callers whose waiting tasks may be cancelled
NextCancel ==
    \/ Next
    \/ \E o \in Ops : CancelCaller(o)

CancelSpec == Init /\ [][NextCancel]_vars

-----------------------------------------------------------------------------
(* Properties *)

Events(j) == reported[j].failed + reported[j].timeout

\* C1: a job is added to the registry exactly once, by the constructor; the
\* completion notification is scheduled exactly once when the task becomes
\* terminal and removes the job exactly once: never twice, never while
\* absent, and the job is no longer registered once the notification has run.
C1_RegisteredOnceRemovedOnce ==
    /\ ~key_error
    /\ \A j \in Jobs :
        /\ added[j] = (IF task[j] = "NONE" THEN 0 ELSE 1)
        /\ removed[j] = (IF dc_ran[j] THEN 1 ELSE 0)
        /\ dc_ran[j] => Done(j) /\ j \notin jobs /\ DcScheduled(j) = 0
        /\ Done(j) /\ ~dc_ran[j] => DcScheduled(j) = 1
        /\ ~Done(j) => DcScheduled(j) = 0

\* C1 witness: both jobs have been waited for and closed, one ended cancelled
\* and one failed, and both were unregistered by their notification
C1_Witness ==
    /\ \E j \in Jobs : task[j] = "CANCELLED" /\ dc_ran[j] /\ removed[j] = 1
                       /\ \E o \in Ops : IsClose(o) /\ op[o].job = j /\ op[o].pc = "done"
    /\ \E j \in Jobs : task[j] = "EXCEPTION" /\ dc_ran[j] /\ removed[j] = 1
                       /\ \E o \in Ops : IsWait(o) /\ op[o].job = j /\ op[o].pc = "done"

\* C2 as stated: a job is in the registry if and only if its computation has
\* not reached a terminal state
C2_Original ==
    \A j \in Jobs : task[j] # "NONE" => (j \in jobs <=> ~Done(j))

\* C2 amended: a job is in the registry if and only if its completion
\* notification has not run yet; a job whose computation is not terminal is
\* always registered, an unregistered job is always terminal, and a terminal
\* job stays registered from termination until the notification runs.
C2_RegisteredUntilNotified ==
    \A j \in Jobs : task[j] # "NONE" =>
        /\ j \in jobs <=> ~dc_ran[j]
        /\ ~Done(j) => j \in jobs
        /\ j \notin jobs => Done(j)

\* C2 witness: a terminal job whose notification is still queued is registered
\* while another terminal job has already been unregistered
C2_Witness ==
    /\ \E j \in Jobs : Done(j) /\ j \in jobs /\ ~dc_ran[j]
    /\ \E j \in Jobs : Done(j) /\ j \notin jobs /\ dc_ran[j]

\* C3: at most one event ("Job processing failed" or "Job closing reached
\* timeout") is ever reported for one job
C3_AtMostOneEvent ==
    \A j \in Jobs : Events(j) <= 1

\* C4: when a job failed, nobody called Job.wait on it and its notification
\* has run, exactly one "Job processing failed" event was reported for it
\* and no caller of close() got the failure raised
C4_UnobservedFailureOnlyReported ==
    \A j \in Jobs :
        task[j] = "EXCEPTION" /\ ~explicit_wait[j] /\ dc_ran[j] =>
            /\ reported[j].failed = 1
            /\ \A o \in Ops : op[o].kind = "close" /\ op[o].job = j => op[o].out # "Err"

\* C5: once Job.wait has set the explicit-wait flag the flag stays set and no
\* "Job processing failed" event is emitted for that job from then on
C5_ExplicitWaitSuppresses ==
    [][\A j \in Jobs : explicit_wait[j] =>
          /\ explicit_wait'[j]
          /\ reported'[j].failed = reported[j].failed]_vars

\* C5 witness: two waits called before the notification ran: one propagated
\* the job's failure with nothing reported, one ended with Timeout
C5_Witness ==
    /\ \E o \in Ops : /\ op[o].kind = "wait" /\ op[o].out = "Err" /\ op[o].timer # "none"
                      /\ dc_ran[op[o].job] /\ reported[op[o].job].failed = 0
    /\ \E o \in Ops : /\ op[o].kind = "wait" /\ op[o].out = "TimeoutError"
                      /\ dc_ran[op[o].job] /\ reported[op[o].job].failed = 0

\* C6: a Job.wait whose deadline elapsed while the computation was running
\* ends with Timeout, after close() was performed, with the job done
C6_ExpiredWaitTimesOut ==
    \A o \in Ops :
        op[o].kind = "wait" /\ op[o].expired /\ op[o].pc = "done" =>
            op[o].out = "TimeoutError" /\ op[o].closed /\ Done(op[o].job)

\* C7: Job.close() returns normally whatever the state of the job and however
\* the computation terminates
C7_CloseNeverFails ==
    \A o \in Ops : op[o].kind = "close" /\ op[o].pc = "done" => op[o].out = "returned"

\* C8: after one close() of a job has returned, another close() of the same
\* job returns normally too and at most one event exists for the job
C8_CloseIdempotent ==
    \A a, b \in Ops :
        /\ a # b /\ op[a].kind = "close" /\ op[b].kind = "close"
        /\ op[a].job = op[b].job
        /\ op[a].out = "returned" /\ op[b].pc = "done"
        => op[b].out = "returned" /\ Events(op[a].job) <= 1

\* C9: when a running job was closed and ended cancelled before the grace
\* period elapsed, no event at all was reported for it, neither through the
\* runner nor by the loop for the completion notification
C9_AcknowledgedCloseIsSilent ==
    \A o \in Ops :
        /\ IsClose(o) /\ op[o].pc = "done" /\ op[o].timer = "cancelled"
        /\ task[op[o].job] = "CANCELLED" /\ dc_ran[op[o].job]
        => Events(op[o].job) = 0 /\ loop_reported[op[o].job] = 0

\* C10: a JobRunner.close() that suspended eventually returns
C10_RunnerCloseReturns ==
    (bulk.kind = "rclose" /\ bulk.state = "waiting") ~> (bulk.state = "returned")

\* C12: the per-job part of JobRunner.wait does what Job.wait does: once it
\* has started on a job the job's explicit-wait flag is set, and no "Job
\* processing failed" event is reported for a job that is being bulk-waited
C12_BulkWaitIsJobWait ==
    \A o \in Ops :
        op[o].kind = "rwait" /\ op[o].pc \in {"await", "done"} =>
            /\ explicit_wait[op[o].job]
            /\ reported[op[o].job].failed = 0

\* C13: the owner reference of a job is set in every state before the job is
\* terminal and is none once the completion notification has run, whether
\* the job completed, failed or was cancelled
C13_OwnerClearedWhenNotified ==
    \A j \in Jobs : task[j] # "NONE" =>
        /\ ~Done(j) => manager[j]
        /\ dc_ran[j] => ~manager[j]

\* C17: a Job.wait without deadline that has returned mirrors the outcome of
\* the computation: the job is terminal, a job that completed with value v
\* made the wait return v, and a job that failed made the wait raise that
\* failure; also when the wait was called on a job that was already terminal
C17_WaitMirrorsOutcome ==
    \A o \in Ops :
        op[o].kind = "wait" /\ ~op[o].dl /\ op[o].pc = "done" =>
            LET j == op[o].job IN
            /\ Done(j)
            /\ task[j] = "RESULT" => op[o].out = "returned" /\ op[o].val = j
            /\ task[j] = "EXCEPTION" => op[o].out = "Err" /\ op[o].val = 0

\* C17 witness: one wait without deadline returned the value of its job while
\* another raised the failure of a job whose notification had already run
\* and reported it, that is, a wait called after the job was terminal
C17_Witness ==
    /\ \E o \in Ops : /\ op[o].kind = "wait" /\ ~op[o].dl /\ op[o].out = "returned"
                      /\ op[o].val = op[o].job /\ task[op[o].job] = "RESULT"
    /\ \E o \in Ops : /\ op[o].kind = "wait" /\ ~op[o].dl /\ op[o].out = "Err"
                      /\ reported[op[o].job].failed = 1

\* C19: a bulk call acts on exactly the jobs registered when it was made: it
\* has one per-job operation for each of them and none for any other job
\* (a job spawned later is neither cancelled nor waited for by it), and when
\* it returns every one of these operations has finished, whatever happened
\* to the registry meanwhile
C19_BulkActsOnCallTimeSet ==
    bulk.state \in {"waiting", "returned"} /\ ~bulk.empty =>
        /\ {op[o].job : o \in bulk.children} = bulk.snapshot
        /\ Cardinality(bulk.children) = Cardinality(bulk.snapshot)
        /\ \A o \in bulk.children : op[o].kind = bulk.kind
        /\ bulk.state = "returned" => \A o \in bulk.children : op[o].pc = "done"

\* C19 witness: the bulk call has returned; a job of its set terminated and
\* unregistered itself during the call, and a job spawned after the call was
\* made is still registered and running, with no cancellation requested
C19_Witness ==
    /\ bulk.state = "returned" /\ ~bulk.empty
    /\ \E j \in bulk.snapshot : dc_ran[j] /\ j \notin jobs
    /\ \E j \in Jobs \ bulk.snapshot :
          task[j] = "PENDING" /\ j \in jobs /\ ~must_cancel[j]

\* C14: reporting is fire-and-forget whatever the configured handler does:
\* no call of close or wait ends with the handler's failure, and the
\* notification of a job that completed or failed always finishes, so the
\* job is unregistered and its owner reference cleared
C14_ReportingNeverRaises ==
    /\ \A o \in Ops : op[o].out # "HandlerError"
    /\ \A j \in Jobs :
          dc_ran[j] /\ task[j] \in {"RESULT", "EXCEPTION"} =>
              j \notin jobs /\ ~manager[j]

C18_IterationIsSnapshot ==
    iter.state # "idle" =>
        /\ \A a, b \in 1..Len(iter.yielded) : iter.yielded[a] = iter.yielded[b] => a = b
        /\ Range(iter.yielded) \subseteq iter.registered
        /\ iter.state = "finished" => Range(iter.yielded) = iter.registered

\* C18 witness: an iteration in progress has yielded a job whose notification
\* unregistered it, while a job spawned after the iteration started is
\* registered and has not been yielded
C18_Witness ==
    /\ iter.state = "active"
    /\ \E j \in Range(iter.yielded) : j \notin jobs /\ dc_ran[j]
    /\ \E j \in jobs : j \notin iter.registered /\ j \notin Range(iter.yielded)

\* no deadline has elapsed for a call on job j and nobody has called close on it
Undisturbed(j) ==
    \A p \in Ops : op[p].job = j => ~IsClose(p) /\ op[p].timer # "fired"

\* C20 as stated: once the cancellation of a suspended waiter has been
\* forwarded to a job, the job ends cancelled
C20_Original ==
    \A o \in Ops :
        op[o].ccancel = "forwarded" /\ Done(op[o].job) => task[op[o].job] = "CANCELLED"

\* C20 amended: cancelling a caller suspended in a wait on a running job
\* requests the cancellation of the job's computation, with no deadline
\* elapsed and no close() called, and the caller keeps waiting for the job;
\* the job ends cancelled when the computation lets the cancellation through
\* (the caller then gets CancelledError), and a computation that catches it
\* ends with its own outcome, which the caller receives
C20_CancelIsForwarded ==
    [][\A o \in Ops :
          LET j == op[o].job IN
          /\ op[o].ccancel = "no" /\ op'[o].ccancel # "no" /\ task[j] = "PENDING" =>
                /\ op'[o].ccancel = "forwarded"
                /\ must_cancel'[j] /\ task'[j] = "PENDING"
                /\ op'[o].pc = "await"
          /\ /\ op'[o].ccancel = "forwarded" /\ op'[o].pc = "done"
             /\ Undisturbed(j)'
             => /\ Done(j)'
                /\ op'[o].out = "CancelledError" <=> task'[j] = "CANCELLED"
                /\ op'[o].out = "returned" <=> task'[j] = "RESULT"]_vars

\* C20 witness: a job ended cancelled although no deadline elapsed for it and
\* nobody closed it: the cancellation of its waiter was forwarded to it
C20_Witness ==
    \E o \in Ops :
        /\ op[o].ccancel = "forwarded" /\ op[o].pc = "done"
        /\ op[o].out = "CancelledError"
        /\ task[op[o].job] = "CANCELLED" /\ Undisturbed(op[o].job)

\* C11: a JobRunner.close() over running jobs returns no later than one grace
\* period after it was called, however many jobs it closes, and when it has
\* returned every job it closed is terminal.  The time is measured on a loop
\* that runs its handles and timers as soon as they are due; the grace
\* period is the one each job's close() read from the runner.
C11_RunnerCloseWithinGrace ==
    bulk.kind = "rclose" /\ ~bulk.empty =>
        /\ bulk.state = "waiting" /\ ~late =>
              \A o \in bulk.children :
                  op[o].pc = "await" /\ op[o].timer # "none" =>
                      now <= bulk.t0 + op[o].delay
        /\ bulk.state = "returned" => \A j \in bulk.snapshot : Done(j)

====
